---- MODULE Spec2Model ----
(***************************************************************************)
(* Model of projects/l2_pooling/noise_tolerance.py: the noise injector     *)
(* noisy(), the learning / inference loops of doExperiment(), and the      *)
(* accumulation and success-rate reduction of varyNumColumns().            *)
(*                                                                         *)
(* Noise levels are rationals k / NoiseDen and are held as the numerator   *)
(* k.  SDRs are sets of cell indices.  The sizes of the cell universes     *)
(* are scaled down (see the bounds below).                                 *)
(***************************************************************************)
EXTENDS Integers, Sequences, FiniteSets, TLC

(* ---------------------------- bounds ----------------------------------- *)

\* denominator of the modelled noise levels: levels are 0/NoiseDen .. 1
NoiseDen == 2
\* largest totalNumCells handed to a stand-alone noisy() call
MaxTotalNumCells == 4
\* doExperiment(): largest numColumns
MaxColumns == 2
\* doExperiment(): number of objects in objectDescriptions
NumObjects == 2
\* doExperiment(): largest number of locations of an object
MaxLocations == 2
\* doExperiment(): largest numInitialTraversals
MaxTraversals == 1
\* active bits of a layer 4 SDR (40 in the source, scaled down)
SdrActiveBits == 1
\* cells of a ColumnPooler (its cellCount parameter, scaled down)
CellCount == 1
\* touch planning on its own: largest numInitialTraversals, number of
\* locations and numColumns
MaxPlanTraversals == 7
MaxPlanLocations == 29
MaxPlanColumns == 7
\* varyNumColumns(): trials (5 in the source, scaled down)
NumTrials == 2

(* ------------------------- small helpers ------------------------------- *)

Min(a, b) == IF a < b THEN a ELSE b

Max(a, b) == IF a > b THEN a ELSE b

(* ------------------------------ noisy ---------------------------------- *)

\* n = int(noiseLevel * len(pattern)), noiseLevel = lvl / NoiseDen >= 0
NoiseCount(pattern, lvl) == (lvl * Cardinality(pattern)) \div NoiseDen

\* random.sample(noised, n): every n-element subset of the population;
\* raises ValueError when n exceeds the population size
RandomSample(population, n) == {r \in SUBSET population : Cardinality(r) = n}

\* random.randint(0, totalNumCells - 1): both ends included
RandIntInclusiveTop(totalNumCells) == 0 .. totalNumCells
RandInt(totalNumCells) == 0 .. (totalNumCells - 1)

\* the acceptance test of the rejection loop
IsFreshNotNoisedOnly(v, pat, noised) == v \notin noised
IsFresh(v, pat, noised) == v \notin pat /\ v \notin noised

\* noised = set(pattern) is a copy: the caller's object is what it was
InputAfterAliased(pat, noised) == noised
InputAfter(pat, noised) == pat

\* for _ in xrange(k): while True: v = randint(..); if fresh: add; break
\* A pass of the while loop that finds no acceptable v in the whole range
\* can never leave the loop: the call does not return.
RECURSIVE AddNoise(_, _, _, _)
AddNoise(noised, pat, totalNumCells, k) ==
  IF k = 0
  THEN {[kind |-> "returned", noised |-> noised, pattern |-> InputAfter(pat, noised)]}
  ELSE LET fresh == {v \in RandInt(totalNumCells) : IsFresh(v, pat, noised)}
       IN  IF fresh = {}
           THEN {[kind |-> "diverges", noised |-> {}, pattern |-> InputAfter(pat, noised)]}
           ELSE UNION {AddNoise(noised \cup {v}, pat, totalNumCells, k - 1) : v \in fresh}

\* every outcome of noisy(pattern, noiseLevel, totalNumCells)
noisy(pat, lvl, totalNumCells) ==
  LET n == NoiseCount(pat, lvl)
  IN  IF n > Cardinality(pat)
      THEN {[kind |-> "ValueError", noised |-> {}, pattern |-> pat]}
      ELSE UNION {AddNoise(pat \ r, pat, totalNumCells, n) : r \in RandomSample(pat, n)}


(* ------------------ double-precision arithmetic ------------------------ *)
(* len(featureLocations) / float(numColumns) and the product with          *)
(* numInitialTraversals are IEEE-754 binary64 operations, rounded to       *)
(* nearest, ties to even.  A positive double is [bits, exp]: bits is the   *)
(* significand, most significant bit first, bits[1] = 1 of weight 2^exp.   *)
(* The zero is [bits |-> << >>, exp |-> 0].                                *)

\* significand width of a Python float
MantissaBits == 53

RECURSIVE Pow2(_)
Pow2(k) == IF k = 0 THEN 1 ELSE 2 * Pow2(k - 1)

DoubleZero == [bits |-> << >>, exp |-> 0]

\* the binary digits of a natural number, most significant first, no leading 0
RECURSIVE BinaryDigits(_)
BinaryDigits(c) == IF c = 0 THEN << >> ELSE Append(BinaryDigits(c \div 2), c % 2)

\* the value of a bit sequence read as a natural number
RECURSIVE BitsValue(_)
BitsValue(b) ==
  IF b = << >> THEN 0 ELSE 2 * BitsValue(SubSeq(b, 1, Len(b) - 1)) + b[Len(b)]

\* add one unit in the last place, from bit i downwards; [bits, carry]
RECURSIVE IncrementFrom(_, _)
IncrementFrom(b, i) ==
  IF i = 0 THEN [bits |-> b, carry |-> 1]
  ELSE IF b[i] = 0 THEN [bits |-> [b EXCEPT ![i] = 1], carry |-> 0]
  ELSE IncrementFrom([b EXCEPT ![i] = 0], i - 1)

IncrementBits(b) == IncrementFrom(b, Len(b))

\* round an exact significand (kept bits, then the discarded tail) to nearest,
\* ties to even; tailHalf compares the tail with half a unit in the last
\* place: -1 below, 0 exactly half, 1 above
RoundNearestEven(kept, exp, tailHalf) ==
  IF tailHalf > 0 \/ (tailHalf = 0 /\ kept[Len(kept)] = 1)
  THEN LET up == IncrementBits(kept)
       IN  IF up.carry = 1
           THEN [bits |-> <<1>> \o SubSeq(up.bits, 1, Len(kept) - 1), exp |-> exp + 1]
           ELSE [bits |-> up.bits, exp |-> exp]
  ELSE [bits |-> kept, exp |-> exp]

\* k more quotient bits of r / den by long division, appended to acc;
\* [bits, rem] with rem the doubled remainder
RECURSIVE QuotientBits(_, _, _, _)
QuotientBits(r, den, k, acc) ==
  IF k = 0 THEN [bits |-> acc, rem |-> r]
  ELSE IF r >= den
       THEN QuotientBits(2 * (r - den), den, k - 1, Append(acc, 1))
       ELSE QuotientBits(2 * r, den, k - 1, Append(acc, 0))

\* a / float(b) for naturals a, b >= 1 with 2^-12 <= a / b < 2^13
FloatDiv(a, b) ==
  LET e   == CHOOSE x \in -12 .. 12 :
               IF x >= 0 THEN b * Pow2(x) <= a /\ a < b * Pow2(x + 1)
                         ELSE b <= a * Pow2(-x) /\ a * Pow2(-x) < 2 * b
      num == IF e >= 0 THEN a ELSE a * Pow2(-e)
      den == IF e >= 0 THEN b * Pow2(e) ELSE b
      q   == QuotientBits(num, den, MantissaBits, << >>)
      half == IF q.rem > den THEN 1 ELSE IF q.rem = den THEN 0 ELSE -1
  IN  RoundNearestEven(q.bits, e, half)

\* the exact product t * b, worked from bit i down to the first; [bits, carry]
RECURSIVE TimesBits(_, _, _, _, _)
TimesBits(t, b, i, carry, acc) ==
  IF i = 0 THEN [bits |-> acc, carry |-> carry]
  ELSE TimesBits(t, b, i - 1, (t * b[i] + carry) \div 2,
                 <<(t * b[i] + carry) % 2>> \o acc)

\* t * d for a natural t (converted exactly) and a double d
FloatMulInt(t, d) ==
  IF t = 0 \/ d.bits = << >> THEN DoubleZero
  ELSE LET p     == TimesBits(t, d.bits, Len(d.bits), 0, << >>)
           exact == BinaryDigits(p.carry) \o p.bits
           extra == Len(exact) - MantissaBits
           kept  == SubSeq(exact, 1, MantissaBits)
           tail  == SubSeq(exact, MantissaBits + 1, Len(exact))
           half  == IF extra = 0 \/ tail[1] = 0 THEN -1
                    ELSE IF \E i \in 2 .. extra : tail[i] = 1 THEN 1 ELSE 0
       IN  RoundNearestEven(kept, d.exp + extra, half)

\* int(math.ceil(d)) for a double d >= 0 below 2^31
CeilDouble(d) ==
  IF d.bits = << >> THEN 0
  ELSE IF d.exp < 0 THEN 1
  ELSE LET whole == BitsValue(SubSeq(d.bits, 1, d.exp + 1))
           frac  == \E i \in (d.exp + 2) .. Len(d.bits) : d.bits[i] = 1
       IN  IF frac THEN whole + 1 ELSE whole

\* numTouchesPerTraversal = len(featureLocations) / float(numColumns)
NumTouchesPerTraversal(numLocations, columns) ==
  IF numLocations = 0 THEN DoubleZero ELSE FloatDiv(numLocations, columns)

\* numInitialTouches = int(math.ceil(numInitialTraversals * numTouchesPerTraversal))
NumInitialTouches(traversals, numLocations, columns) ==
  CeilDouble(FloatMulInt(traversals, NumTouchesPerTraversal(numLocations, columns)))

\* numTestTouches = int(math.ceil(1 * numTouchesPerTraversal))
NumTestTouches(numLocations, columns) ==
  CeilDouble(FloatMulInt(1, NumTouchesPerTraversal(numLocations, columns)))

\* the ceiling of the exact quotient a / b
CeilDiv(a, b) == (a + b - 1) \div b


(* --------------------------- doExperiment ------------------------------ *)

\* L4_CELL_COUNT = 8*1024, scaled down; as in the source it leaves room for
\* replacing every active bit of an SDR by a fresh one
L4_CELL_COUNT == 2 * SdrActiveBits

\* for _ in xrange(4): relaxation steps of a learning touch
LearnSteps == 4
\* for _ in xrange(3): relaxation steps of an inference touch
SettleSteps == 3

FeaturePool == {"A", "B"}

\* createRandomObjectDescriptions(numObjects, numLocationsPerObject): each
\* object is the list of (location, feature) pairs of locations 0 .. n-1
createRandomObjectDescriptions(numObjects, numLocationsPerObject) ==
  {[o \in 1 .. numObjects |->
      [i \in 1 .. numLocationsPerObject |-> <<i - 1, f[o][i]>>]] :
    f \in [1 .. numObjects -> [1 .. numLocationsPerObject -> FeaturePool]]}

\* layer4sdr = lambda: set(random.sample(xrange(L4_CELL_COUNT), 40))
layer4sdr == RandomSample(0 .. (L4_CELL_COUNT - 1), SdrActiveBits)

\* defaultdict(layer4sdr).__getitem__(key): the dictionary after the lookup,
\* fresh being what the factory would return
DefaultDictRedraw(d, key, fresh) ==
  [k \in DOMAIN d \cup {key} |-> IF k = key THEN fresh ELSE d[k]]
DefaultDictLookup(d, key, fresh) ==
  IF key \in DOMAIN d THEN d
  ELSE [k \in DOMAIN d \cup {key} |-> IF k = key THEN fresh ELSE d[k]]

\* ColumnPooler (learned connections are inside the pooler and not modelled)
Cells == 0 .. (CellCount - 1)
ColumnPoolerNew == {}
ColumnPoolerReset(active) == {}
ColumnPoolerGetActiveCells(active) == active
ColumnPoolerCompute(active, feedforwardInput, lateralInputs, learn) == SUBSET Cells

\* greedySensorPositions(numColumns, numLocations): each element gives one
\* location index per column
SensorPositions(columns, numLocations) == [1 .. columns -> 0 .. (numLocations - 1)]

\* [lateralInput for i, lateralInput in enumerate(allLateralInputs)
\*  if i != columnNumber]
RECURSIVE SkipColumn(_, _, _)
SkipColumn(all, c, i) ==
  IF i > Len(all) THEN << >>
  ELSE (IF i = c THEN << >> ELSE <<all[i]>>) \o SkipColumn(all, c, i + 1)

LateralInputsLive(c, all, cols) == SkipColumn(cols, c, 1)
LateralInputs(c, all, cols) == SkipColumn(all, c, 1)

\* random.gauss(noiseMu, noiseSigma): noiseMu itself when noiseSigma is 0,
\* otherwise any real, of which one below 0 and one above 1 stand for the rest
Gauss(mu, sigma) == IF sigma = 0 THEN {mu} ELSE -1 .. (NoiseDen + 1)

\* max(0.0, min(1.0, noiseLevel))
Clamp(lvl) == Max(0, Min(NoiseDen, lvl))

\* (len(activeCells & correctCells), len(activeCells - correctCells))
Score(activeCells, correctCells) ==
  <<Cardinality(activeCells \cap correctCells), Cardinality(activeCells \ correctCells)>>

(* -------------------------- varyNumColumns ----------------------------- *)

\* columnCounts = [1, 2, 3, 4], scaled down
columnCounts == <<1, 2>>

\* noiseLevels = [x * 0.01 for x in xrange(0, 101, 5)], scaled down
noiseLevels == <<0>>

numCorrectActiveThreshold == 30
numIncorrectActiveThreshold == 10

\* (numCorrect, numIncorrect) pairs a doExperiment() call may hand back: on
\* and next to the two thresholds
ResultPairs == {<<30, 10>>, <<29, 10>>, <<30, 11>>}

\* the lists a doExperiment() call may return: one pair per column (the
\* results of one test touch)
RunResults(columns) == [1 .. columns -> ResultPairs]

\* numCorrect >= correctThreshold and numIncorrect <= incorrectThreshold
PassedStrictly(trial, correctThreshold, incorrectThreshold) ==
  trial[1] > correctThreshold /\ trial[2] < incorrectThreshold
Passed(trial, correctThreshold, incorrectThreshold) ==
  trial[1] >= correctThreshold /\ trial[2] <= incorrectThreshold

\* numPassed / float(len(trials)), kept as <<numPassed, len(trials)>>
SuccessRate(trials, correctThreshold, incorrectThreshold) ==
  LET Keep(t) == Passed(t, correctThreshold, incorrectThreshold)
      numPassed == Len(SelectSeq(trials, Keep))
  IN  <<numPassed, Len(trials)>>

\* the (numColumns, noiseLevel) pairs in the order the sweep visits them
SweepKeys ==
  [i \in 1 .. (Len(columnCounts) * Len(noiseLevels)) |->
     <<columnCounts[((i - 1) \div Len(noiseLevels)) + 1],
       noiseLevels[((i - 1) % Len(noiseLevels)) + 1]>>]

(* ----------------------------- state ----------------------------------- *)

VARIABLES
  pattern,        \* noisy(): argument
  noiseLevel,     \* noisy(): argument (numerator over NoiseDen)
  totalNumCells,  \* noisy(): argument
  outcome,        \* noisy(): how the call ended
  numColumns,               \* doExperiment(): argument
  objectDescriptions,       \* doExperiment(): argument
  noiseMu,                  \* doExperiment(): argument (numerator over NoiseDen)
  noiseSigma,               \* doExperiment(): argument (0, or 1 for any positive sigma)
  numInitialTraversals,     \* doExperiment(): argument
  featureLocationSDRs,      \* per column, feature-location name -> SDR
  l2Columns,                \* per column, the pooler's active cells
  objectL2Representations,  \* object -> per column learned cells
  allLateralInputs,         \* snapshot taken at the start of a relaxation step
  results,                  \* list of (correct, incorrect)
  pc,                       \* position in doExperiment
  objectIdx,                \* loop over objectDescriptions
  locationIdx,              \* learning: loop over featureLocations
  step,                     \* relaxation step of the current touch
  columnNumber,             \* loop over l2Columns
  touch,                    \* inference: loop over touches
  sensorPositions,          \* inference: positions of the current touch
  numInitialTouches,
  numTestTouches,
  \* history variables, read by the properties only
  firstLookup,      \* per column, name -> what the first lookup returned
  lastLookup,       \* the latest lookup: column, name and what it returned
  stepStartCells,   \* per column, active cells when the current step began
  lateralGiven,     \* the latest compute of the current step: column and its
                    \* lateral inputs
  lastComputed,     \* per column, active cells right after its latest compute on
                    \* the current object ({} before the first)
  touchNoiseLevels, \* per column, noise levels used in the current touch
  sweepResults,     \* varyNumColumns(): results, (numColumns, noiseLevel) -> list
  sweepRates,       \* varyNumColumns(): numColumns -> the plotted list y
  sweepPc,          \* varyNumColumns(): position
  trial,            \* varyNumColumns(): loop over trials
  sweepIdx,         \* varyNumColumns(): loop over SweepKeys / columnCounts
  \* more history variables of doExperiment(), read by the properties only
  capturedOriginal, \* object -> per column cells, as they were when captured
  resultLog,        \* per entry of results: object, column and the active
                    \* cells that were scored
  lastComputeMode   \* "learn" or "infer": the learn flag of the latest compute

noisyVars == <<pattern, noiseLevel, totalNumCells, outcome>>

inputVars == <<numColumns, objectDescriptions, noiseMu, noiseSigma, numInitialTraversals>>

loopVars == <<pc, objectIdx, locationIdx, step, columnNumber, touch, sensorPositions,
              numInitialTouches, numTestTouches>>

dataVars == <<featureLocationSDRs, l2Columns, objectL2Representations, allLateralInputs,
              results>>

historyVars == <<firstLookup, lastLookup, stepStartCells, lateralGiven, lastComputed,
                 touchNoiseLevels>>

sweepVars == <<sweepResults, sweepRates, sweepPc, trial, sweepIdx>>

auditVars == <<capturedOriginal, resultLog, lastComputeMode>>

vars == <<noisyVars, inputVars, loopVars, dataVars, historyVars, sweepVars, auditVars>>

NotCalled == [kind |-> "none", noised |-> {}, pattern |-> {}]

Columns == 1 .. numColumns

NoLookup == [column |-> 0, name |-> << >>, sdr |-> {}]

NoCompute == [column |-> 0, lateralInputs |-> << >>]

\* the variables of doExperiment() before it is called
ExperimentIdle ==
  /\ numColumns = 0 /\ objectDescriptions = << >>
  /\ noiseMu = 0 /\ noiseSigma = 0 /\ numInitialTraversals = 0
  /\ featureLocationSDRs = << >> /\ l2Columns = << >>
  /\ objectL2Representations = << >> /\ allLateralInputs = << >>
  /\ results = << >> /\ pc = "idle"
  /\ objectIdx = 0 /\ locationIdx = 0 /\ step = 0 /\ columnNumber = 0 /\ touch = 0
  /\ sensorPositions = << >> /\ numInitialTouches = 0 /\ numTestTouches = 0
  /\ firstLookup = << >> /\ lastLookup = NoLookup /\ stepStartCells = << >>
  /\ lateralGiven = NoCompute /\ lastComputed = << >> /\ touchNoiseLevels = << >>
  /\ capturedOriginal = << >> /\ resultLog = << >> /\ lastComputeMode = "none"

NoisyIdle ==
  /\ pattern = {} /\ noiseLevel = 0 /\ totalNumCells = 0 /\ outcome = NotCalled

SweepIdle ==
  /\ sweepResults = << >> /\ sweepRates = << >> /\ sweepPc = "idle"
  /\ trial = 0 /\ sweepIdx = 0

(* ------------------- specification of noisy() calls -------------------- *)

InitNoisy ==
  /\ totalNumCells \in 1 .. MaxTotalNumCells
  /\ pattern \in SUBSET (0 .. (totalNumCells - 1))
  /\ noiseLevel \in 0 .. (NoiseDen + 1)
  /\ outcome = NotCalled
  /\ ExperimentIdle
  /\ SweepIdle

NoisyCall ==
  /\ outcome.kind = "none"
  /\ outcome' \in noisy(pattern, noiseLevel, totalNumCells)
  /\ UNCHANGED <<pattern, noiseLevel, totalNumCells>>
  /\ UNCHANGED <<inputVars, loopVars, dataVars, historyVars, sweepVars, auditVars>>

NextNoisy == NoisyCall

SpecNoisy == InitNoisy /\ [][NextNoisy]_vars

(* ------------------ specification of doExperiment() -------------------- *)

EmptyDict == [k \in {} |-> {}]

\* The calls explored.  Every combination of the arguments is explored for one
\* column and objects of one location.  Runs on larger objects are explored
\* with every input fully noisy (noiseMu = 1, noiseSigma = 0), and runs with
\* several columns moreover without initial traversals and on objects whose
\* locations all carry the same feature.
ExploredInputs ==
  \/ numColumns = 1 /\ \A o \in DOMAIN objectDescriptions : Len(objectDescriptions[o]) = 1
  \/ numColumns = 1 /\ noiseMu = NoiseDen /\ noiseSigma = 0
  \/ /\ noiseMu = NoiseDen /\ noiseSigma = 0 /\ numInitialTraversals = 0
     /\ \A o \in DOMAIN objectDescriptions :
          \A i \in DOMAIN objectDescriptions[o] :
            objectDescriptions[o][i][2] = objectDescriptions[1][1][2]

Init ==
  /\ NoisyIdle
  /\ SweepIdle
  /\ numColumns \in 1 .. MaxColumns
  /\ \E numLocations \in numColumns .. MaxLocations :
       objectDescriptions \in createRandomObjectDescriptions(NumObjects, numLocations)
  /\ noiseMu \in 0 .. NoiseDen
  /\ noiseSigma \in {0, 1}
  /\ numInitialTraversals \in 0 .. MaxTraversals
  /\ ExploredInputs
  \* featureLocationSDRs = [defaultdict(layer4sdr) for _ in xrange(numColumns)]
  /\ featureLocationSDRs = [c \in Columns |-> EmptyDict]
  \* l2Columns = [ColumnPooler(**params) for _ in xrange(numColumns)]
  /\ l2Columns = [c \in Columns |-> ColumnPoolerNew]
  /\ objectL2Representations = << >>
  /\ allLateralInputs = << >>
  /\ results = << >>
  /\ pc = "learn_step"
  /\ objectIdx = 1 /\ locationIdx = 1 /\ step = 0 /\ columnNumber = 0 /\ touch = 0
  /\ sensorPositions = << >> /\ numInitialTouches = 0 /\ numTestTouches = 0
  /\ firstLookup = [c \in Columns |-> EmptyDict]
  /\ lastLookup = NoLookup
  /\ stepStartCells = [c \in Columns |-> {}]
  /\ lateralGiven = NoCompute
  /\ lastComputed = [c \in Columns |-> {}]
  /\ touchNoiseLevels = [c \in Columns |-> {}]
  /\ capturedOriginal = << >>
  /\ resultLog = << >>
  /\ lastComputeMode = "none"

featureLocations == objectDescriptions[objectIdx]

\* allLateralInputs = [l2.getActiveCells() for l2 in l2Columns]
LearnSnapshot ==
  /\ pc = "learn_step"
  /\ allLateralInputs' = [c \in Columns |-> ColumnPoolerGetActiveCells(l2Columns[c])]
  /\ stepStartCells' = l2Columns
  /\ lateralGiven' = NoCompute
  /\ columnNumber' = 1
  /\ pc' = "learn_compute"
  /\ UNCHANGED <<noisyVars, sweepVars, auditVars, inputVars, objectIdx, locationIdx, step, touch, sensorPositions,
                 numInitialTouches, numTestTouches, featureLocationSDRs, l2Columns,
                 objectL2Representations, results, firstLookup, lastLookup, lastComputed,
                 touchNoiseLevels>>

\* one pass of the body of "for columnNumber, l2 in enumerate(l2Columns)" while
\* learning, and the loop bookkeeping that follows it
LearnCompute ==
  /\ pc = "learn_compute"
  /\ LET c == columnNumber
         featureLocationName == featureLocations[locationIdx]
     IN  \E fresh \in layer4sdr :
           LET d == DefaultDictLookup(featureLocationSDRs[c], featureLocationName, fresh)
               feedforwardInput == d[featureLocationName]
               lateralInputs == LateralInputs(c, allLateralInputs, l2Columns)
           IN  /\ featureLocationSDRs' = [featureLocationSDRs EXCEPT ![c] = d]
               /\ firstLookup' =
                    [firstLookup EXCEPT ![c] =
                       DefaultDictLookup(@, featureLocationName, feedforwardInput)]
               /\ lastLookup' = [column |-> c, name |-> featureLocationName,
                                 sdr |-> feedforwardInput]
               /\ lateralGiven' = [column |-> c, lateralInputs |-> lateralInputs]
               /\ \E active \in ColumnPoolerCompute(l2Columns[c], feedforwardInput,
                                                    lateralInputs, TRUE) :
                    /\ l2Columns' = [l2Columns EXCEPT ![c] = active]
                    /\ lastComputed' = [lastComputed EXCEPT ![c] = active]
                    /\ lastComputeMode' = "learn"
  /\ IF columnNumber < numColumns
     THEN /\ columnNumber' = columnNumber + 1
          /\ UNCHANGED <<pc, step, locationIdx>>
     ELSE /\ columnNumber' = 0
          /\ IF step + 1 < LearnSteps
             THEN /\ step' = step + 1
                  /\ pc' = "learn_step"
                  /\ UNCHANGED locationIdx
             ELSE /\ step' = 0
                  /\ IF locationIdx < Len(featureLocations)
                     THEN /\ locationIdx' = locationIdx + 1
                          /\ pc' = "learn_step"
                     ELSE /\ locationIdx' = 0
                          /\ pc' = "learn_capture"
  /\ UNCHANGED <<noisyVars, sweepVars, capturedOriginal, resultLog, inputVars, objectIdx, touch, sensorPositions, numInitialTouches,
                 numTestTouches, objectL2Representations, allLateralInputs, results,
                 stepStartCells, touchNoiseLevels>>

\* objectL2Representations[objectName] = [set(l2.getActiveCells()) for l2 in l2Columns]
LearnCaptureAfterReset ==
  /\ pc = "learn_capture"
  /\ objectL2Representations' =
       Append(objectL2Representations,
              [c \in Columns |->
                 ColumnPoolerGetActiveCells(ColumnPoolerReset(l2Columns[c]))])
  /\ capturedOriginal' = Append(capturedOriginal, objectL2Representations'[objectIdx])
  /\ pc' = "learn_reset"
  /\ UNCHANGED <<noisyVars, sweepVars, resultLog, lastComputeMode, inputVars, objectIdx, locationIdx, step, columnNumber, touch,
                 sensorPositions, numInitialTouches, numTestTouches, featureLocationSDRs,
                 l2Columns, allLateralInputs, results, historyVars>>
LearnCaptureShared ==
  /\ pc = "learn_capture"
  /\ objectL2Representations' =
       [o \in 1 .. objectIdx |->
          [c \in Columns |-> ColumnPoolerGetActiveCells(l2Columns[c])]]
  /\ capturedOriginal' = Append(capturedOriginal,
                                 [c \in Columns |-> ColumnPoolerGetActiveCells(l2Columns[c])])
  /\ pc' = "learn_reset"
  /\ UNCHANGED <<noisyVars, sweepVars, resultLog, lastComputeMode, inputVars, objectIdx, locationIdx, step, columnNumber, touch,
                 sensorPositions, numInitialTouches, numTestTouches, featureLocationSDRs,
                 l2Columns, allLateralInputs, results, historyVars>>
LearnCapture ==
  /\ pc = "learn_capture"
  /\ objectL2Representations' =
       Append(objectL2Representations,
              [c \in Columns |-> ColumnPoolerGetActiveCells(l2Columns[c])])
  /\ capturedOriginal' = Append(capturedOriginal, objectL2Representations'[objectIdx])
  /\ pc' = "learn_reset"
  /\ UNCHANGED <<noisyVars, sweepVars, resultLog, lastComputeMode, inputVars, objectIdx, locationIdx, step, columnNumber, touch,
                 sensorPositions, numInitialTouches, numTestTouches, featureLocationSDRs,
                 l2Columns, allLateralInputs, results, historyVars>>

\* for l2 in l2Columns: l2.reset(), then the next object or the inference pass
LearnResetSkipped ==
  /\ pc = "learn_reset"
  /\ IF objectIdx < Len(objectDescriptions)
     THEN /\ objectIdx' = objectIdx + 1
          /\ locationIdx' = 1
          /\ pc' = "learn_step"
     ELSE /\ objectIdx' = 1
          /\ locationIdx' = 0
          /\ pc' = "infer_begin"
  /\ UNCHANGED <<noisyVars, sweepVars, auditVars, inputVars, step, columnNumber, touch, sensorPositions,
                 numInitialTouches, numTestTouches, featureLocationSDRs, l2Columns,
                 objectL2Representations, allLateralInputs, results, historyVars>>
LearnReset ==
  /\ pc = "learn_reset"
  /\ l2Columns' = [c \in Columns |-> ColumnPoolerReset(l2Columns[c])]
  /\ lastComputed' = [c \in Columns |-> {}]
  /\ IF objectIdx < Len(objectDescriptions)
     THEN /\ objectIdx' = objectIdx + 1
          /\ locationIdx' = 1
          /\ pc' = "learn_step"
     ELSE /\ objectIdx' = 1
          /\ locationIdx' = 0
          /\ pc' = "infer_begin"
  /\ UNCHANGED <<noisyVars, sweepVars, auditVars, inputVars, step, columnNumber, touch, sensorPositions,
                 numInitialTouches, numTestTouches, featureLocationSDRs,
                 objectL2Representations, allLateralInputs, results, firstLookup,
                 lastLookup, stepStartCells, lateralGiven, touchNoiseLevels>>

\* the head of the inference loop for one object: reset the columns, build
\* the sensor position iterator, translate traversals into touches
InferBegin ==
  /\ pc = "infer_begin"
  /\ l2Columns' = [c \in Columns |-> ColumnPoolerReset(l2Columns[c])]
  /\ numInitialTouches' =
       NumInitialTouches(numInitialTraversals, Len(featureLocations), numColumns)
  /\ numTestTouches' = NumTestTouches(Len(featureLocations), numColumns)
  /\ touch' = 0
  /\ lastComputed' = [c \in Columns |-> {}]
  /\ pc' = "infer_touch"
  /\ UNCHANGED <<noisyVars, sweepVars, auditVars, inputVars, objectIdx, locationIdx, step, columnNumber,
                 sensorPositions, featureLocationSDRs, objectL2Representations,
                 allLateralInputs, results, firstLookup, lastLookup, stepStartCells,
                 lateralGiven, touchNoiseLevels>>

\* "for touch in xrange(numInitialTouches + numTestTouches)": the next touch
\* (sensorPositions = next(sensorPositionsIterator)), or the loop's end
InferTouch ==
  /\ pc = "infer_touch"
  /\ IF touch < numInitialTouches + numTestTouches
     THEN /\ sensorPositions' \in SensorPositions(numColumns, Len(featureLocations))
          /\ step' = 0
          /\ touchNoiseLevels' = [c \in Columns |-> {}]
          /\ pc' = "infer_step"
          /\ UNCHANGED objectIdx
     ELSE /\ sensorPositions' = << >>
          /\ IF objectIdx < Len(objectDescriptions)
             THEN /\ objectIdx' = objectIdx + 1
                  /\ pc' = "infer_begin"
             ELSE /\ objectIdx' = 0
                  /\ pc' = "done"
          /\ UNCHANGED <<step, touchNoiseLevels>>
  /\ UNCHANGED <<noisyVars, sweepVars, auditVars, inputVars, locationIdx, columnNumber, touch, numInitialTouches,
                 numTestTouches, dataVars, firstLookup, lastLookup, stepStartCells,
                 lateralGiven, lastComputed>>

\* allLateralInputs = [l2.getActiveCells() for l2 in l2Columns]
InferSnapshot ==
  /\ pc = "infer_step"
  /\ allLateralInputs' = [c \in Columns |-> ColumnPoolerGetActiveCells(l2Columns[c])]
  /\ stepStartCells' = l2Columns
  /\ lateralGiven' = NoCompute
  /\ columnNumber' = 1
  /\ pc' = "infer_compute"
  /\ UNCHANGED <<noisyVars, sweepVars, auditVars, inputVars, objectIdx, locationIdx, step, touch, sensorPositions,
                 numInitialTouches, numTestTouches, featureLocationSDRs, l2Columns,
                 objectL2Representations, results, firstLookup, lastLookup, lastComputed,
                 touchNoiseLevels>>

\* one pass of the body of "for columnNumber, l2 in enumerate(l2Columns)" while
\* inferring, and the loop bookkeeping that follows it
InferCompute ==
  /\ pc = "infer_compute"
  /\ LET c == columnNumber
         position == sensorPositions[c]
         featureLocationName == featureLocations[position + 1]
     IN  \E drawn \in Gauss(noiseMu, noiseSigma), fresh \in layer4sdr :
           LET lvl == Clamp(drawn)
               d == DefaultDictLookup(featureLocationSDRs[c], featureLocationName, fresh)
               looked == d[featureLocationName]
           IN  \E out \in noisy(looked, lvl, L4_CELL_COUNT) :
                 LET feedforwardInput == out.noised
                     lateralInputs == LateralInputs(c, allLateralInputs, l2Columns)
                 IN  /\ out.kind = "returned"
                     /\ featureLocationSDRs' =
                          [featureLocationSDRs EXCEPT
                             ![c] = [d EXCEPT ![featureLocationName] = out.pattern]]
                     /\ firstLookup' =
                          [firstLookup EXCEPT ![c] =
                             DefaultDictLookup(@, featureLocationName, looked)]
                     /\ lastLookup' = [column |-> c, name |-> featureLocationName,
                                       sdr |-> looked]
                     /\ touchNoiseLevels' = [touchNoiseLevels EXCEPT ![c] = @ \cup {lvl}]
                     /\ lateralGiven' = [column |-> c, lateralInputs |-> lateralInputs]
                     /\ \E active \in ColumnPoolerCompute(l2Columns[c], feedforwardInput,
                                                          lateralInputs, FALSE) :
                          /\ l2Columns' = [l2Columns EXCEPT ![c] = active]
                          /\ lastComputed' = [lastComputed EXCEPT ![c] = active]
                          /\ lastComputeMode' = "infer"
  /\ IF columnNumber < numColumns
     THEN /\ columnNumber' = columnNumber + 1
          /\ UNCHANGED <<pc, step, touch>>
     ELSE /\ columnNumber' = 0
          /\ IF step + 1 < SettleSteps
             THEN /\ step' = step + 1
                  /\ pc' = "infer_step"
                  /\ UNCHANGED touch
             ELSE /\ step' = 0
                  /\ IF touch >= numInitialTouches
                     THEN /\ pc' = "infer_record"
                          /\ UNCHANGED touch
                     ELSE /\ pc' = "infer_touch"
                          /\ touch' = touch + 1
  /\ UNCHANGED <<noisyVars, sweepVars, capturedOriginal, resultLog, inputVars, objectIdx, locationIdx, sensorPositions,
                 numInitialTouches, numTestTouches, objectL2Representations,
                 allLateralInputs, results, stepStartCells>>

\* if touch >= numInitialTouches: for columnNumber, l2 in enumerate(l2Columns):
\*   results.append((len(activeCells & correctCells), len(activeCells - correctCells)))
InferRecord ==
  /\ pc = "infer_record"
  /\ results' = results \o
       [c \in Columns |->
          Score(ColumnPoolerGetActiveCells(l2Columns[c]),
                objectL2Representations[objectIdx][c])]
  /\ resultLog' = resultLog \o
       [c \in Columns |->
          [object |-> objectIdx, column |-> c,
           activeCells |-> ColumnPoolerGetActiveCells(l2Columns[c])]]
  /\ touch' = touch + 1
  /\ pc' = "infer_touch"
  /\ UNCHANGED <<noisyVars, sweepVars, capturedOriginal, lastComputeMode, inputVars, objectIdx, locationIdx, step, columnNumber,
                 sensorPositions, numInitialTouches, numTestTouches, featureLocationSDRs,
                 l2Columns, objectL2Representations, allLateralInputs, historyVars>>

Next ==
  \/ LearnSnapshot
  \/ LearnCompute
  \/ LearnCapture
  \/ LearnReset
  \/ InferBegin
  \/ InferTouch
  \/ InferSnapshot
  \/ InferCompute
  \/ InferRecord

Spec == Init /\ [][Next]_vars

(* ------------- specification of the touch planning alone --------------- *)
(* numInitialTouches and numTestTouches are functions of                   *)
(* numInitialTraversals, len(featureLocations) and numColumns alone; they  *)
(* are explored here over a wider range than whole experiments allow.      *)

InitPlan ==
  /\ NoisyIdle
  /\ SweepIdle
  /\ numColumns \in 1 .. MaxPlanColumns
  /\ numInitialTraversals \in 0 .. MaxPlanTraversals
  /\ \E numLocations \in 1 .. MaxPlanLocations :
       objectDescriptions = <<[i \in 1 .. numLocations |-> <<i - 1, "A">>]>>
  /\ noiseMu = 0 /\ noiseSigma = 0
  /\ featureLocationSDRs = << >> /\ l2Columns = << >>
  /\ objectL2Representations = << >> /\ allLateralInputs = << >>
  /\ results = << >> /\ pc = "plan_touches"
  /\ objectIdx = 1 /\ locationIdx = 0 /\ step = 0 /\ columnNumber = 0 /\ touch = 0
  /\ sensorPositions = << >> /\ numInitialTouches = 0 /\ numTestTouches = 0
  /\ firstLookup = << >> /\ lastLookup = NoLookup /\ stepStartCells = << >>
  /\ lateralGiven = NoCompute /\ lastComputed = << >> /\ touchNoiseLevels = << >>
  /\ capturedOriginal = << >> /\ resultLog = << >> /\ lastComputeMode = "none"

PlanTouches ==
  /\ pc = "plan_touches"
  /\ numInitialTouches' =
       NumInitialTouches(numInitialTraversals, Len(featureLocations), numColumns)
  /\ numTestTouches' = NumTestTouches(Len(featureLocations), numColumns)
  /\ pc' = "planned"
  /\ UNCHANGED <<noisyVars, sweepVars, auditVars, inputVars, objectIdx, locationIdx, step,
                 columnNumber, touch, sensorPositions, dataVars, historyVars>>

NextPlan == PlanTouches

SpecPlan == InitPlan /\ [][NextPlan]_vars

(* ----------------- specification of varyNumColumns() ------------------- *)

InitSweep ==
  /\ NoisyIdle
  /\ ExperimentIdle
  \* results = defaultdict(list)
  /\ sweepResults = [k \in {} |-> << >>]
  /\ sweepRates = [k \in {} |-> << >>]
  /\ sweepPc = "run"
  /\ trial = 0
  /\ sweepIdx = 1

\* defaultdict(list).__getitem__(key)
ListOrEmpty(d, key) == IF key \in DOMAIN d THEN d[key] ELSE << >>

\* r = doExperiment(...); results[(numColumns, noiseLevel)].extend(r)
SweepRun ==
  /\ sweepPc = "run"
  /\ \E r \in RunResults(SweepKeys[sweepIdx][1]) :
       LET key == SweepKeys[sweepIdx]
       IN  sweepResults' =
             [k \in DOMAIN sweepResults \cup {key} |->
                IF k = key THEN ListOrEmpty(sweepResults, key) \o r ELSE sweepResults[k]]
  /\ IF sweepIdx < Len(SweepKeys)
     THEN /\ sweepIdx' = sweepIdx + 1
          /\ UNCHANGED <<trial, sweepPc>>
     ELSE /\ sweepIdx' = 1
          /\ IF trial + 1 < NumTrials
             THEN /\ trial' = trial + 1
                  /\ UNCHANGED sweepPc
             ELSE /\ trial' = 0
                  /\ sweepPc' = "plot"
  /\ UNCHANGED <<noisyVars, inputVars, loopVars, dataVars, historyVars, auditVars,
                 sweepRates>>

\* one pass of "for numColumns in columnCounts": the list y of success rates
SweepPlot ==
  /\ sweepPc = "plot"
  /\ LET numCols == columnCounts[sweepIdx]
         y == [n \in 1 .. Len(noiseLevels) |->
                 SuccessRate(ListOrEmpty(sweepResults, <<numCols, noiseLevels[n]>>),
                             numCorrectActiveThreshold, numIncorrectActiveThreshold)]
     IN  \* numPassed / float(len(trials)) raises ZeroDivisionError on no trials
         /\ \A n \in 1 .. Len(noiseLevels) : y[n][2] > 0
         /\ sweepRates' = [k \in DOMAIN sweepRates \cup {numCols} |->
                             IF k = numCols THEN y ELSE sweepRates[k]]
  /\ IF sweepIdx < Len(columnCounts)
     THEN /\ sweepIdx' = sweepIdx + 1
          /\ UNCHANGED sweepPc
     ELSE /\ sweepIdx' = 0
          /\ sweepPc' = "done"
  /\ UNCHANGED <<noisyVars, inputVars, loopVars, dataVars, historyVars, auditVars,
                 sweepResults, trial>>

NextSweep == SweepRun \/ SweepPlot

SpecSweep == InitSweep /\ [][NextSweep]_vars

(* ============================ properties =============================== *)

NoisyN == NoiseCount(pattern, noiseLevel)

\* C1: a call of noisy() with a noise level in [0,1] that returns, returns a
\* set with as many elements as the pattern, all of them cell indices below
\* totalNumCells.
NoisyKeepsActivityCount ==
  (outcome.kind = "returned" /\ noiseLevel <= NoiseDen) =>
    /\ Cardinality(outcome.noised) = Cardinality(pattern)
    /\ outcome.noised \subseteq 0 .. (totalNumCells - 1)

NoisyKeepsActivityCountWitness ==
  /\ outcome.kind = "returned"
  /\ NoisyN >= 1
  /\ Cardinality(pattern) >= 2
  /\ outcome.noised # pattern

\* C2: a call of noisy() that returns keeps exactly |P| - n indices of P and
\* adds exactly n indices outside P, n = floor(noiseLevel * |P|); at noise
\* level 0 the result is P, at noise level 1 it shares no index with P.
NoisySwapsExactlyN ==
  (outcome.kind = "returned" /\ noiseLevel <= NoiseDen) =>
    /\ Cardinality(outcome.noised \cap pattern) = Cardinality(pattern) - NoisyN
    /\ Cardinality(outcome.noised \ pattern) = NoisyN
    /\ (noiseLevel = 0 => outcome.noised = pattern)
    /\ (noiseLevel = NoiseDen => outcome.noised \cap pattern = {})

NoisySwapsExactlyNWitness ==
  /\ outcome.kind = "returned"
  /\ NoisyN >= 1
  /\ NoisyN < Cardinality(pattern)
  /\ Cardinality(outcome.noised \ pattern) = NoisyN

\* C3: a call of noisy() whose n exceeds |pattern|, or for which fewer than n
\* cells outside the pattern exist, ends in an error.
NoisyInfeasible ==
  \/ NoisyN > Cardinality(pattern)
  \/ totalNumCells - Cardinality(pattern) < NoisyN

NoisyRejectsInfeasible ==
  (NoisyInfeasible /\ outcome.kind # "none") => outcome.kind = "ValueError"

\* C4: every lookup of featureLocationSDRs[c][k] yields what the first lookup
\* of (c, k) yielded, and the cached SDRs are what they were when first
\* drawn: nothing, noisy() included, alters them.
CodebookStable ==
  /\ \A c \in DOMAIN featureLocationSDRs :
       \A k \in DOMAIN featureLocationSDRs[c] :
         featureLocationSDRs[c][k] = firstLookup[c][k]
  /\ lastLookup.column # 0 =>
       lastLookup.sdr = firstLookup[lastLookup.column][lastLookup.name]

CodebookStableWitness ==
  /\ pc = "infer_step"
  /\ step = 2
  /\ lastLookup.column = numColumns
  /\ Clamp(noiseMu) = NoiseDen
  /\ noiseSigma = 0
  /\ Len(results) > 0

\* C5: the lateral inputs of column c's compute are the active cells the
\* other columns had when the relaxation step began, in column order.
LateralInputsFromStepStart ==
  lateralGiven.column # 0 =>
    /\ Len(lateralGiven.lateralInputs) = numColumns - 1
    /\ \A i \in 1 .. (numColumns - 1) :
         lateralGiven.lateralInputs[i] =
           stepStartCells[IF i < lateralGiven.column THEN i ELSE i + 1]

LateralInputsFromStepStartWitness ==
  /\ numColumns >= 2
  /\ lateralGiven.column = 2
  /\ lateralGiven.lateralInputs[1] # l2Columns[1]
  /\ pc \in {"infer_step", "infer_compute", "infer_touch", "infer_record"}

\* C6: within one touch, one noise level is used for a column in all the
\* relaxation steps.
NoiseLevelOncePerTouch ==
  \A c \in DOMAIN touchNoiseLevels : Cardinality(touchNoiseLevels[c]) <= 1

\* C7: the touches of an object are ceil(numInitialTraversals * L / C) initial
\* ones and ceil(L / C) test ones.
PlannedTouchesExact ==
  pc \in {"planned", "infer_touch", "infer_step", "infer_compute", "infer_record"} =>
    /\ numInitialTouches =
         CeilDiv(numInitialTraversals * Len(featureLocations), numColumns)
    /\ numTestTouches = CeilDiv(Len(featureLocations), numColumns)

\* C7, the part that holds: results are recorded for the test touches only,
\* one pair per column per test touch, so that the returned list has
\* numTestTouches * numColumns entries per object.
ResultsFromTestTouchesOnly ==
  /\ pc = "infer_touch" =>
       Len(results) = numColumns *
         ((objectIdx - 1) * numTestTouches + Max(0, touch - numInitialTouches))
  /\ pc = "done" => Len(results) = numColumns * NumObjects * numTestTouches

\* C8: the plotted success rate of a key is the number of its accumulated
\* pairs with correct >= threshold and incorrect <= threshold over the number
\* of its pairs; (6,1) and (3,3) under thresholds 5 and 2 give 1/2.
SuccessRateIsPassFraction ==
  /\ \A numCols \in DOMAIN sweepRates :
       \A n \in 1 .. Len(noiseLevels) :
         LET trials == sweepResults[<<numCols, noiseLevels[n]>>]
             passing == {i \in 1 .. Len(trials) :
                           /\ trials[i][1] >= numCorrectActiveThreshold
                           /\ trials[i][2] <= numIncorrectActiveThreshold}
         IN  sweepRates[numCols][n] = <<Cardinality(passing), Len(trials)>>
  /\ sweepPc = "done" => SuccessRate(<<<<6, 1>>, <<3, 3>>>>, 5, 2) = <<1, 2>>

SuccessRateIsPassFractionWitness ==
  /\ sweepPc = "done"
  /\ \E numCols \in DOMAIN sweepRates :
       /\ sweepRates[numCols][1][1] > 0
       /\ sweepRates[numCols][1][1] < sweepRates[numCols][1][2]

\* C9: an object's learned representation is, for each column, the active
\* cells right after the column's last learning compute on the object: it is
\* captured before the reset.
CapturedBeforeReset ==
  pc = "learn_reset" => objectL2Representations[objectIdx] = lastComputed

CapturedBeforeResetWitness ==
  /\ pc = "learn_reset"
  /\ objectIdx = 2
  /\ \E c \in Columns : objectL2Representations[objectIdx][c] # {}

\* C10: when the first relaxation step of an object begins, in learning and
\* in inference, every column's active cells are empty, and so are the
\* lateral inputs of that step.
FirstStepOfObject ==
  \/ pc \in {"learn_step", "learn_compute"} /\ locationIdx = 1 /\ step = 0
  \/ pc \in {"infer_step", "infer_compute"} /\ touch = 0 /\ step = 0

ColumnsClearAtObjectStart ==
  /\ (FirstStepOfObject /\ pc \in {"learn_step", "infer_step"}) =>
       \A c \in Columns : l2Columns[c] = {}
  /\ (FirstStepOfObject /\ pc \in {"learn_compute", "infer_compute"}) =>
       \A c \in Columns : allLateralInputs[c] = {}

ColumnsClearAtObjectStartWitness ==
  /\ pc = "learn_compute"
  /\ FirstStepOfObject
  /\ objectIdx = 2
  /\ \E c \in Columns : objectL2Representations[1][c] # {}

\* C11: every compute with learn=True precedes every compute with
\* learn=False and inference starts only when every object has its learned
\* representation; a learned representation stays what it was when captured;
\* every recorded result is the score of the active cells against the
\* representation captured for that object and column when its learning ended.
LearnedBeforeInferredAndKept ==
  /\ [](/\ lastComputeMode = "infer" =>
             Len(objectL2Representations) = Len(objectDescriptions)
        /\ objectL2Representations = capturedOriginal
        /\ Len(resultLog) = Len(results)
        /\ \A i \in 1 .. Len(results) :
             results[i] =
               <<Cardinality(resultLog[i].activeCells \cap
                             capturedOriginal[resultLog[i].object][resultLog[i].column]),
                 Cardinality(resultLog[i].activeCells \
                             capturedOriginal[resultLog[i].object][resultLog[i].column])>>)
  /\ [][/\ lastComputeMode = "infer" => lastComputeMode' = "infer"
        /\ \A o \in DOMAIN objectL2Representations :
             /\ o \in DOMAIN objectL2Representations'
             /\ objectL2Representations'[o] = objectL2Representations[o]]_vars

LearnedBeforeInferredAndKeptWitness ==
  /\ pc = "done"
  /\ lastComputeMode = "infer"
  /\ Len(results) >= 2
  /\ objectL2Representations[1] # objectL2Representations[2]
  /\ \E i \in 1 .. Len(results) : resultLog[i].object = 2 /\ results[i][1] > 0
  /\ \E i \in 1 .. Len(results) : resultLog[i].object = 1 /\ results[i][2] > 0

====
